---------------------------- MODULE Spec2Model ----------------------------
(***************************************************************************)
(* Model of boost::astronomy::coordinate::base_representation              *)
(* (include/boost/astronomy/coordinate/base_representation.hpp).           *)
(*                                                                         *)
(* A representation instance is a record [type, point].  Its point is a    *)
(* boost::geometry point, modelled as [cs, at]: the coordinate system tag  *)
(* and the position the coordinates denote, written as the triple of its   *)
(* cartesian components.  The header reads coordinates only from 3-D       *)
(* cartesian temporaries, so the native angles of a spherical point are    *)
(* never inspected by the code modelled here.                              *)
(*                                                                         *)
(* A double is <<"fin", n, d>> (the rational n/d in lowest terms, d > 0),  *)
(* <<"inf", s, 1>> (s = 1 or -1) or <<"nan", 0, 1>>.  Rounding and the     *)
(* sign of zero are not modelled; every zero is +0.0.                      *)
(***************************************************************************)
EXTENDS Integers, Sequences, FiniteSets, TLC

\* Largest L1 norm of a finite input point.
MaxCoord == 2

\* ------------------------------------------------------------------------
\* double arithmetic (IEEE 754 special values kept)
\* ------------------------------------------------------------------------
Abs(n) == IF n < 0 THEN -n ELSE n

RECURSIVE Gcd(_, _)
Gcd(m, n) == IF n = 0 THEN m ELSE Gcd(n, m % n)

Fin(n, d) ==
    LET g == Gcd(Abs(n), Abs(d))
        s == IF d < 0 THEN -1 ELSE 1
    IN  <<"fin", (s * n) \div g, (s * d) \div g>>

Dbl(n) == <<"fin", n, 1>>
NaN == <<"nan", 0, 1>>
Inf(s) == <<"inf", s, 1>>

IsNaN(x) == x[1] = "nan"
IsInf(x) == x[1] = "inf"
IsFinite(x) == x[1] = "fin"
IsZero(x) == x[1] = "fin" /\ x[2] = 0
Sign(x) == IF x[2] < 0 THEN -1 ELSE IF x[2] > 0 THEN 1 ELSE 0

Neg(x) ==
    IF IsNaN(x) THEN NaN
    ELSE IF IsInf(x) THEN Inf(-x[2])
    ELSE <<"fin", -x[2], x[3]>>

Add(x, y) ==
    IF IsNaN(x) \/ IsNaN(y) THEN NaN
    ELSE IF IsInf(x) /\ IsInf(y) THEN (IF x[2] = y[2] THEN x ELSE NaN)
    ELSE IF IsInf(x) THEN x
    ELSE IF IsInf(y) THEN y
    ELSE Fin(x[2] * y[3] + y[2] * x[3], x[3] * y[3])

Sub(x, y) == Add(x, Neg(y))

Mul(x, y) ==
    IF IsNaN(x) \/ IsNaN(y) THEN NaN
    ELSE IF IsInf(x) \/ IsInf(y)
         THEN (IF IsZero(x) \/ IsZero(y) THEN NaN ELSE Inf(Sign(x) * Sign(y)))
    ELSE Fin(x[2] * y[2], x[3] * y[3])

Div(x, y) ==
    IF IsNaN(x) \/ IsNaN(y) THEN NaN
    ELSE IF IsInf(x) /\ IsInf(y) THEN NaN
    ELSE IF IsInf(x) THEN (IF IsZero(y) THEN x ELSE Inf(Sign(x) * Sign(y)))
    ELSE IF IsInf(y) THEN Dbl(0)
    ELSE IF IsZero(y) THEN (IF IsZero(x) THEN NaN ELSE Inf(Sign(x)))
    ELSE Fin(x[2] * y[3], x[3] * y[2])

IsSquare(n) == \E r \in 0..n : r * r = n
Root(n) == CHOOSE r \in 0..n : r * r = n

\* std::sqrt; a root that is not rational is kept as the surd it is.
Sqrt(x) ==
    IF IsNaN(x) THEN NaN
    ELSE IF IsInf(x) THEN (IF x[2] > 0 THEN x ELSE NaN)
    ELSE IF x[2] < 0 THEN NaN
    ELSE IF IsSquare(x[2]) /\ IsSquare(x[3]) THEN Fin(Root(x[2]), Root(x[3]))
    ELSE <<"surd", x[2], x[3]>>


\* ------------------------------------------------------------------------
\* types and the is-a-representation predicate
\* ------------------------------------------------------------------------
\* The concrete representation types (each derives from base_representation).
RepresentationTypes == {"cartesian_representation", "spherical_representation"}

\* Types that are no representation: a bare geometry point and a double.
OtherTypes == {"point", "double"}

Types == RepresentationTypes \cup OtherTypes

System(t) == IF t = "spherical_representation" THEN "spherical" ELSE "cartesian"

\* The public base classes of a type: <<template, DimensionCount, Type>>.
Bases(t) ==
    IF t \in RepresentationTypes
    THEN {<<"base_representation", 3, System(t)>>}
    ELSE {}

\* decltype(test(declval<U*>())): the overload test(Base<T, Args...>*) is
\* viable (and then preferred over test(void*)) exactly when T and Args can
\* be deduced, i.e. U has one base class that instantiates Base.
base_template(Base, Derived) ==
    IF Cardinality({b \in Bases(Derived) : b[1] = Base}) = 1
    THEN "true_type"
    ELSE "false_type"

\* The alias names the type itself; as the operand of a static assertion it
\* is a type-id, not a constant expression.
is_base_template_of(Base, Derived) ==
    [kind |-> "type", name |-> base_template(Base, Derived)]

\* is_base_template_of<Base, Derived>::value
value(t) == [kind |-> "value", name |-> t.name]

\* static_assert(e, msg): the build goes on only when e is a constant
\* expression that is true.
BOOST_STATIC_ASSERT_MSG(e) == e.kind = "value" /\ e.name = "true_type"

\* ------------------------------------------------------------------------
\* geometry kernel (boost::geometry)
\* ------------------------------------------------------------------------
Uninit == <<"uninit", 0, 1>>

\* A default-constructed 3-D cartesian point: coordinates not yet written.
CartesianPoint == [cs |-> "cartesian", at |-> <<Uninit, Uninit, Uninit>>]

get(p, i) == p.at[i + 1]
set(p, i, v) == [p EXCEPT !.at[i + 1] = v]

\* transform(p, q): q becomes the point of q's system at p's position.
transform(p, q) == [cs |-> q.cs, at |-> p.at]

cross_product(p1, p2) ==
    [cs |-> "cartesian",
     at |-> << Sub(Mul(get(p1, 1), get(p2, 2)), Mul(get(p1, 2), get(p2, 1))),
               Sub(Mul(get(p1, 2), get(p2, 0)), Mul(get(p1, 0), get(p2, 2))),
               Sub(Mul(get(p1, 0), get(p2, 1)), Mul(get(p1, 1), get(p2, 0))) >>]

dot_product(p1, p2) ==
    Add(Mul(get(p1, 0), get(p2, 0)),
        Add(Mul(get(p1, 1), get(p2, 1)), Mul(get(p1, 2), get(p2, 2))))

\* ReturnType(point): the constructor of a concrete representation type takes
\* a geometry point of any system and stores it in its own system.
Construct(ReturnType, p) ==
    [type |-> ReturnType,
     point |-> transform(p, [cs |-> System(ReturnType), at |-> <<>>])]

\* ------------------------------------------------------------------------
\* outcomes of a call
\* ------------------------------------------------------------------------
\* The build rejected the instantiation: nothing runs.
Rejected(this, other) ==
    [this |-> this, other |-> other, built |-> FALSE, kind |-> "none", ret |-> <<>>]

\* The call returned a newly constructed instance.
Returned(this, other, inst) ==
    [this |-> this, other |-> other, built |-> TRUE, kind |-> "instance",
     ret |-> <<inst>>]

\* The call returned a double.
Scalar(this, other, x) ==
    [this |-> this, other |-> other, built |-> TRUE, kind |-> "scalar",
     ret |-> <<x>>]

\* Outcomes of the operations that take no other operand.
Rejected1(this) ==
    [this |-> this, built |-> FALSE, kind |-> "none", ret |-> <<>>]

Returned1(this, inst) ==
    [this |-> this, built |-> TRUE, kind |-> "instance", ret |-> <<inst>>]

\* ------------------------------------------------------------------------
\* base_representation<DimensionCount, Type>
\* ------------------------------------------------------------------------
get_point(this) == this.point

magnitude(this) ==
    LET result == Dbl(0)
        tempPoint == transform(this.point, CartesianPoint)
    IN  Sqrt(result)


\* cross with the second temporary filled from this->point.
cross_self(this, other, ReturnType) ==
    IF ~BOOST_STATIC_ASSERT_MSG(value(is_base_template_of("base_representation", other.type)))
    THEN Rejected(this, other)
    ELSE IF ~BOOST_STATIC_ASSERT_MSG(value(is_base_template_of("base_representation", ReturnType)))
    THEN Rejected(this, other)
    ELSE
    LET tempPoint1 == transform(this.point, CartesianPoint)
        tempPoint2 == transform(this.point, CartesianPoint)
    IN  Returned(this, other,
                 Construct(ReturnType, cross_product(tempPoint1, tempPoint2)))

cross(this, other, ReturnType) ==
    IF ~BOOST_STATIC_ASSERT_MSG(value(is_base_template_of("base_representation", other.type)))
    THEN Rejected(this, other)
    ELSE IF ~BOOST_STATIC_ASSERT_MSG(value(is_base_template_of("base_representation", ReturnType)))
    THEN Rejected(this, other)
    ELSE LET tempPoint1 == transform(this.point, CartesianPoint)
             tempPoint2 == transform(get_point(other), CartesianPoint)
         IN  Returned(this, other,
                      Construct(ReturnType, cross_product(tempPoint1, tempPoint2)))


\* dot with the second temporary filled from this->point.
dot_self(this, other) ==
    IF ~BOOST_STATIC_ASSERT_MSG(value(is_base_template_of("base_representation", other.type)))
    THEN Rejected(this, other)
    ELSE
    LET tempPoint1 == transform(this.point, CartesianPoint)
        tempPoint2 == transform(this.point, CartesianPoint)
    IN  Scalar(this, other, dot_product(tempPoint1, tempPoint2))

dot(this, other) ==
    IF ~BOOST_STATIC_ASSERT_MSG(value(is_base_template_of("base_representation", other.type)))
    THEN Rejected(this, other)
    ELSE LET tempPoint1 == transform(this.point, CartesianPoint)
             tempPoint2 == transform(get_point(other), CartesianPoint)
         IN  Scalar(this, other, dot_product(tempPoint1, tempPoint2))


\* unit_vector normalising the stored point in place.
unit_vector_inplace(this, ReturnType) ==
    IF ~BOOST_STATIC_ASSERT_MSG(value(is_base_template_of("base_representation", ReturnType)))
    THEN Rejected1(this)
    ELSE
    LET mag == magnitude(this)
        tempPoint == transform(this.point, CartesianPoint)
        t0 == set(tempPoint, 0, Div(get(tempPoint, 0), mag))
        t1 == set(t0, 1, Div(get(t0, 1), mag))
        t2 == set(t1, 2, Div(get(t1, 2), mag))
    IN  Returned1([this EXCEPT !.point = transform(t2, this.point)],
                  Construct(ReturnType, t2))

\* unit_vector skipping the division when the magnitude is zero.
unit_vector_guarded(this, ReturnType) ==
    IF ~BOOST_STATIC_ASSERT_MSG(value(is_base_template_of("base_representation", ReturnType)))
    THEN Rejected1(this)
    ELSE
    LET mag == magnitude(this)
        tempPoint == transform(this.point, CartesianPoint)
    IN  Returned1(this, Construct(ReturnType, tempPoint))

unit_vector(this, ReturnType) ==
    IF ~BOOST_STATIC_ASSERT_MSG(value(is_base_template_of("base_representation", ReturnType)))
    THEN Rejected1(this)
    ELSE LET mag == magnitude(this)
             tempPoint == transform(this.point, CartesianPoint)
             t0 == set(tempPoint, 0, Div(get(tempPoint, 0), mag))
             t1 == set(t0, 1, Div(get(t0, 1), mag))
             t2 == set(t1, 2, Div(get(t1, 2), mag))
         IN  Returned1(this, Construct(ReturnType, t2))

\* The asserted operand is the predicate's type, without ::value.
to_representation(this, ReturnType) ==
    IF ~BOOST_STATIC_ASSERT_MSG(is_base_template_of("base_representation", ReturnType))
    THEN Rejected1(this)
    ELSE Returned1(this, Construct(ReturnType, this.point))


\* sum writing the third component from the second.
sum_index(this, other, ReturnType) ==
    IF ~BOOST_STATIC_ASSERT_MSG(value(is_base_template_of("base_representation", other.type)))
    THEN Rejected(this, other)
    ELSE IF ~BOOST_STATIC_ASSERT_MSG(value(is_base_template_of("base_representation", ReturnType)))
    THEN Rejected(this, other)
    ELSE
    LET tempPoint1 == transform(this.point, CartesianPoint)
        tempPoint2 == transform(get_point(other), CartesianPoint)
        r0 == set(CartesianPoint, 0, Add(get(tempPoint1, 0), get(tempPoint2, 0)))
        r1 == set(r0, 1, Add(get(tempPoint1, 1), get(tempPoint2, 1)))
        result == set(r1, 2, Add(get(tempPoint1, 1), get(tempPoint2, 1)))
    IN  Returned(this, other, Construct(ReturnType, result))

sum(this, other, ReturnType) ==
    IF ~BOOST_STATIC_ASSERT_MSG(value(is_base_template_of("base_representation", other.type)))
    THEN Rejected(this, other)
    ELSE IF ~BOOST_STATIC_ASSERT_MSG(value(is_base_template_of("base_representation", ReturnType)))
    THEN Rejected(this, other)
    ELSE LET tempPoint1 == transform(this.point, CartesianPoint)
             tempPoint2 == transform(get_point(other), CartesianPoint)
             r0 == set(CartesianPoint, 0, Add(get(tempPoint1, 0), get(tempPoint2, 0)))
             r1 == set(r0, 1, Add(get(tempPoint1, 1), get(tempPoint2, 1)))
             result == set(r1, 2, Add(get(tempPoint1, 2), get(tempPoint2, 2)))
         IN  Returned(this, other, Construct(ReturnType, result))


\* mean leaving out the division of the third component.
mean_unhalved(this, other, ReturnType) ==
    IF ~BOOST_STATIC_ASSERT_MSG(value(is_base_template_of("base_representation", other.type)))
    THEN Rejected(this, other)
    ELSE IF ~BOOST_STATIC_ASSERT_MSG(value(is_base_template_of("base_representation", ReturnType)))
    THEN Rejected(this, other)
    ELSE
    LET tempPoint1 == transform(this.point, CartesianPoint)
        tempPoint2 == transform(get_point(other), CartesianPoint)
        r0 == set(CartesianPoint, 0,
                  Div(Add(get(tempPoint1, 0), get(tempPoint2, 0)), Dbl(2)))
        r1 == set(r0, 1,
                  Div(Add(get(tempPoint1, 1), get(tempPoint2, 1)), Dbl(2)))
        result == set(r1, 2, Add(get(tempPoint1, 2), get(tempPoint2, 2)))
    IN  Returned(this, other, Construct(ReturnType, result))

mean(this, other, ReturnType) ==
    IF ~BOOST_STATIC_ASSERT_MSG(value(is_base_template_of("base_representation", other.type)))
    THEN Rejected(this, other)
    ELSE IF ~BOOST_STATIC_ASSERT_MSG(value(is_base_template_of("base_representation", ReturnType)))
    THEN Rejected(this, other)
    ELSE LET tempPoint1 == transform(this.point, CartesianPoint)
             tempPoint2 == transform(get_point(other), CartesianPoint)
             r0 == set(CartesianPoint, 0,
                       Div(Add(get(tempPoint1, 0), get(tempPoint2, 0)), Dbl(2)))
             r1 == set(r0, 1,
                       Div(Add(get(tempPoint1, 1), get(tempPoint2, 1)), Dbl(2)))
             result == set(r1, 2,
                       Div(Add(get(tempPoint1, 2), get(tempPoint2, 2)), Dbl(2)))
         IN  Returned(this, other, Construct(ReturnType, result))

\* ------------------------------------------------------------------------
\* inputs
\* ------------------------------------------------------------------------
Coords == (-MaxCoord)..MaxCoord

\* Finite input positions: integer triples of L1 norm at most MaxCoord.
FinitePositions ==
    {<<Dbl(x), Dbl(y), Dbl(z)>> : <<x, y, z>> \in
        {t \in Coords \X Coords \X Coords : Abs(t[1]) + Abs(t[2]) + Abs(t[3]) <= MaxCoord}}

Instance(t, pos) == [type |-> t, point |-> [cs |-> System(t), at |-> pos]]

FiniteInstances == {Instance(t, pos) : t \in RepresentationTypes, pos \in FinitePositions}

\* Instances a program also holds: what unit_vector returned for a finite one.
DerivedInstances ==
    {unit_vector(i, t).ret[1] : i \in FiniteInstances, t \in RepresentationTypes}

Instances == FiniteInstances \cup DerivedInstances

\* A value that is no representation, passed where one is expected.
RawPoint == [type |-> "point", point |-> [cs |-> "cartesian", at |-> <<Dbl(1), Dbl(0), Dbl(0)>>]]

\* ------------------------------------------------------------------------
\* state
\* ------------------------------------------------------------------------
VARIABLES
    a,      \* the instance the operations are called on
    b,      \* a second instance, passed as the other operand
    call    \* the last call: operation, operand, return type and outcome

vars == <<a, b, call>>

NoCall ==
    [op |-> "none", other |-> "none", ReturnType |-> "none",
     built |-> TRUE, kind |-> "none", ret |-> <<>>]

Init ==
    /\ a \in Instances
    /\ b \in Instances
    /\ call = NoCall

\* The operand named n.
Operand(n) == IF n = "a" THEN a ELSE IF n = "b" THEN b ELSE RawPoint

OtherNames == {"a", "b", "raw"}

Record(op, n, ReturnType, out) ==
    [op |-> op, other |-> n, ReturnType |-> ReturnType,
     built |-> out.built, kind |-> out.kind, ret |-> out.ret]

\* A call with another operand: the instances are what the call left of them.
\* The caller makes one call per full expression; what it returned lives
\* until Discard.
Binary(op, n, ReturnType, out) ==
    /\ call = NoCall
    /\ a' = out.this
    /\ b' = IF n = "b" THEN out.other ELSE b
    /\ call' = Record(op, n, ReturnType, out)

Unary(op, ReturnType, out) ==
    /\ call = NoCall
    /\ a' = out.this
    /\ b' = b
    /\ call' = Record(op, "none", ReturnType, out)

Cross == \E n \in OtherNames, T \in Types : Binary("cross", n, T, cross(a, Operand(n), T))

Dot == \E n \in OtherNames : Binary("dot", n, "double", dot(a, Operand(n)))

UnitVector == \E T \in Types : Unary("unit_vector", T, unit_vector(a, T))

ToRepresentation == \E T \in Types : Unary("to_representation", T, to_representation(a, T))

Sum == \E n \in OtherNames, T \in Types : Binary("sum", n, T, sum(a, Operand(n), T))

Mean == \E n \in OtherNames, T \in Types : Binary("mean", n, T, mean(a, Operand(n), T))

Magnitude ==
    /\ call = NoCall
    /\ call' = [op |-> "magnitude", other |-> "none", ReturnType |-> "double",
                built |-> TRUE, kind |-> "scalar", ret |-> <<magnitude(a)>>]
    /\ UNCHANGED <<a, b>>

GetPoint ==
    /\ call = NoCall
    /\ call' = [op |-> "get_point", other |-> "none", ReturnType |-> "point",
                built |-> TRUE, kind |-> "point", ret |-> <<get_point(a)>>]
    /\ UNCHANGED <<a, b>>

\* The end of the full expression: the returned temporary is destroyed.
Discard ==
    /\ call # NoCall
    /\ call' = NoCall
    /\ UNCHANGED <<a, b>>

Next ==
    \/ Cross
    \/ Dot
    \/ UnitVector
    \/ ToRepresentation
    \/ Sum
    \/ Mean
    \/ Magnitude
    \/ GetPoint
    \/ Discard

Spec == Init /\ [][Next]_vars

\* ------------------------------------------------------------------------
\* properties
\* ------------------------------------------------------------------------
\* The canonical 3-D cartesian components of an instance.
Canon(inst) == transform(inst.point, CartesianPoint).at

AllFinite(pos) == \A i \in 1..3 : IsFinite(pos[i])
Zero3 == <<Dbl(0), Dbl(0), Dbl(0)>>
SumSq(pos) == Add(Mul(pos[1], pos[1]), Add(Mul(pos[2], pos[2]), Mul(pos[3], pos[3])))

\* n/d = p/q as rationals, by cross-multiplication of the integers.
SameRational(x, y) == x[2] * y[3] = y[2] * x[3]

\* The last call was op and returned an instance / a double.
Gave(op) == call.op = op /\ call.built /\ call.kind = "instance"
GaveScalar(op) == call.op = op /\ call.built /\ call.kind = "scalar"
Other == Operand(call.other)
Result == call.ret[1]

AtX == <<Dbl(1), Dbl(0), Dbl(0)>>
AtY == <<Dbl(0), Dbl(1), Dbl(0)>>

\* C1: magnitude() returns the Euclidean norm m >= 0 of the canonical point,
\* m*m = x*x + y*y + z*z, and the instance at (1,0,0) has magnitude 1.
C1_MagnitudeIsNorm ==
    (GaveScalar("magnitude") /\ AllFinite(Canon(a))) =>
        /\ IsFinite(Result)
        /\ Sign(Result) >= 0
        /\ Mul(Result, Result) = SumSq(Canon(a))
        /\ (Canon(a) = AtX => Result = Dbl(1))

\* C2: for a non-zero a, unit_vector<T>() has magnitude 1 and its canonical
\* components are a's, each divided by a's Euclidean norm.
C2_UnitVectorIsNormalised ==
    (Gave("unit_vector") /\ AllFinite(Canon(a)) /\ Canon(a) # Zero3) =>
        /\ magnitude(Result) = Dbl(1)
        /\ \A i \in 1..3 :
              /\ IsFinite(Canon(Result)[i])
              /\ Sign(Canon(Result)[i]) = Sign(Canon(a)[i])
              /\ Mul(Mul(Canon(Result)[i], Canon(Result)[i]), SumSq(Canon(a)))
                    = Mul(Canon(a)[i], Canon(a)[i])

\* C3: the canonical point of a.sum<T>(b) is the component-wise sum of the
\* canonical points of a and b, whatever their types; (1,0,0) summed with
\* (0,1,0) gives (1,1,0).
C3_SumIsComponentwise ==
    Gave("sum") =>
        /\ \A i \in 1..3 :
              LET x == Canon(a)[i]
                  y == Canon(Other)[i]
                  r == Canon(Result)[i]
              IN  IF IsFinite(x) /\ IsFinite(y)
                  THEN IsFinite(r) /\ r[2] * (x[3] * y[3]) = (x[2] * y[3] + y[2] * x[3]) * r[3]
                  ELSE r = Add(x, y)
        /\ (Canon(a) = AtX /\ Canon(Other) = AtY)
              => Canon(Result) = <<Dbl(1), Dbl(1), Dbl(0)>>
        /\ Result.type = call.ReturnType

C3_Witness ==
    /\ Gave("sum")
    /\ Canon(a) = AtX
    /\ call.other = "b"
    /\ Canon(b) = AtY
    /\ a.type # b.type
    /\ Canon(Result) = <<Dbl(1), Dbl(1), Dbl(0)>>

\* C4: a.cross(b) and b.cross(a) are additive inverses, canonical component
\* by canonical component, and (1,0,0) cross (0,1,0) is (0,0,1).
C4_CrossAntiCommutes ==
    Gave("cross") =>
        /\ \A i \in 1..3 :
              Canon(Result)[i] = Neg(Canon(cross(Other, a, call.ReturnType).ret[1])[i])
        /\ (Canon(a) = AtX /\ Canon(Other) = AtY)
              => Canon(Result) = <<Dbl(0), Dbl(0), Dbl(1)>>
        /\ (Canon(a) = AtY /\ Canon(Other) = AtX)
              => Canon(Result) = <<Dbl(0), Dbl(0), Dbl(-1)>>

C4_Witness ==
    /\ Gave("cross")
    /\ Canon(a) = AtX
    /\ call.other = "b"
    /\ Canon(b) = AtY
    /\ a.type # b.type
    /\ Canon(Result) = <<Dbl(0), Dbl(0), Dbl(1)>>

\* C5: a.dot(b) equals b.dot(a), the dot product of the two canonical
\* points, whatever the types of a and b; it is 0 for (1,0,0) and (0,1,0).
C5_DotCommutes ==
    GaveScalar("dot") =>
        /\ Result = dot(Other, a).ret[1]
        /\ (AllFinite(Canon(a)) /\ AllFinite(Canon(Other))) =>
              /\ IsFinite(Result)
              /\ Result[3] = 1
              /\ Result[2] = Canon(a)[1][2] * Canon(Other)[1][2]
                           + Canon(a)[2][2] * Canon(Other)[2][2]
                           + Canon(a)[3][2] * Canon(Other)[3][2]
        /\ (Canon(a) = AtX /\ Canon(Other) = AtY) => Result = Dbl(0)

C5_Witness ==
    /\ GaveScalar("dot")
    /\ call.other = "b"
    /\ a.type # b.type
    /\ AllFinite(Canon(a))
    /\ AllFinite(Canon(b))
    /\ Result # Dbl(0)
    /\ Canon(a) # Canon(b)

\* C6: each canonical component of a.mean<T>(b) is exactly half of the same
\* component of a.sum<T>(b), that is (a_i + b_i)/2.
C6_MeanIsHalfSum ==
    Gave("mean") =>
        \A i \in 1..3 :
            LET m == Canon(Result)[i]
                h == Canon(sum(a, Other, call.ReturnType).ret[1])[i]
            IN  /\ m = Div(h, Dbl(2))
                /\ IsFinite(h) => (IsFinite(m) /\ 2 * m[2] * h[3] = h[2] * m[3])
                /\ IsFinite(m) => IsFinite(h)

C6_Witness ==
    /\ Gave("mean")
    /\ call.other = "b"
    /\ AllFinite(Canon(a))
    /\ AllFinite(Canon(b))
    /\ \E i \in 1..3 : Canon(Result)[i][3] = 2
    /\ \E i \in 1..3 : Canon(Result)[i][2] < 0

\* C7: a.to_representation<S>() for a of type S returns an instance whose
\* get_point() equals a.get_point().
C7_ToSameTypeIsIdentity ==
    (call.op = "to_representation" /\ call.ReturnType = a.type) =>
        /\ call.built
        /\ call.kind = "instance"
        /\ get_point(Result) = get_point(a)

\* C8: each of cross, dot, unit_vector, to_representation, sum and mean is
\* rejected by the build exactly when its argument type or its return type
\* is no representation; representation types pass, and a rejected call
\* yields no result.
C8_GatedByPredicate ==
    (call.op \in {"cross", "dot", "unit_vector", "to_representation", "sum", "mean"}) =>
        /\ call.built <=>
              /\ (call.other # "none" => Other.type \in RepresentationTypes)
              /\ (call.op # "dot" => call.ReturnType \in RepresentationTypes)
        /\ ~call.built => call.kind = "none"

\* C9: no call changes the stored point of self or of the other operand, and
\* what a value-returning call yields is a new instance beside them.
C9_OperandsImmutable ==
    [][ /\ a' = a
        /\ b' = b
        /\ (call'.kind = "instance" =>
              /\ call'.ret[1].type = call'.ReturnType
              /\ call.kind = "none") ]_vars

C9_Witness ==
    /\ Gave("unit_vector")
    /\ AllFinite(Canon(a))
    /\ Canon(a) # Zero3
    /\ Canon(Result) # Canon(a)

\* C10 as stated: at the canonical zero vector neither magnitude nor
\* unit_vector returns an ordinary finite value.
C10_ZeroNeverFinite ==
    Canon(a) = Zero3 =>
        /\ GaveScalar("magnitude") => ~IsFinite(Result)
        /\ Gave("unit_vector") => \E i \in 1..3 : ~IsFinite(Canon(Result)[i])

\* C10 amended: at the canonical zero vector unit_vector<T>() returns an
\* instance whose every canonical component is NaN, while magnitude()
\* returns the finite value 0.
C10_ZeroPolicy ==
    Canon(a) = Zero3 =>
        /\ GaveScalar("magnitude") => Result = Dbl(0)
        /\ Gave("unit_vector") => Canon(Result) = <<NaN, NaN, NaN>>

C10_Witness ==
    /\ Canon(a) = Zero3
    /\ Gave("unit_vector")
    /\ Canon(Result) = <<NaN, NaN, NaN>>
    /\ magnitude(a) = Dbl(0)

=============================================================================
